---- MODULE Spec2Model ----
(***************************************************************************)
(* BathroomFan (src/bathroom_fan.py): an AppDaemon app that turns a        *)
(* bathroom exhaust fan on when the absolute humidity of the bathroom      *)
(* exceeds that of the living space by more than `threshold`, and turns   *)
(* it off again with a delay (`delay` after an automatic activation,      *)
(* `manual_delay` after a manual one).                                     *)
(*                                                                         *)
(* The model holds the Home Assistant state store (the four sensor         *)
(* readings, the actor, the app switch), the FIFO of state-change          *)
(* notifications not yet delivered to state_change, the scheduler's        *)
(* pending run_in timers, and the fields of the BathroomFan object.        *)
(* One action per callback: HandleEvent (state_change), FireHumidityTimer  *)
(* (turn_off_callback), FireManualTimer (manual_turn_off_callback); the    *)
(* environment changes a sensor, the actor or the app switch, and lets     *)
(* time pass.                                                              *)
(*                                                                         *)
(* Units: a state value is the string Home Assistant holds, written as a   *)
(* sequence of characters; humidities are in mg/m^3 (the code's g/m^3      *)
(* times 1000) computed in integer fixed point; time is counted in ticks.  *)
(***************************************************************************)
EXTENDS Integers, Sequences, FiniteSets, TLC

(***************************************************************************)
(* Bounds of the model.                                                    *)
(***************************************************************************)
\* self.delay, in ticks (args["delay"])
delay == 1

\* self.manual_delay, in ticks (args["manual_delay"])
manual_delay == 2

\* notifications the environment may have outstanding at once
MaxQueue == 1

\* terms of the series that evaluates math.exp
ExpTerms == 12

(***************************************************************************)
(* Configuration (self.args), the docstring's example values.              *)
(***************************************************************************)
\* args["threshold"], eg 3.54 g/m^3
threshold == 3540

\* args["lower_threshold"], eg 1.377 g/m^3
lower_threshold == 1377

\* args.get("temperature_unit", "F").upper()
temperature_unit == "F"

\* Python's None, as a state value no string equals
None == <<"None">>

\* a timer handle attribute holding None
NoHandle == 0

unknown == <<"u", "n", "k", "n", "o", "w", "n">>

unavailable == <<"u", "n", "a", "v", "a", "i", "l", "a", "b", "l", "e">>

(***************************************************************************)
(* float(state) of get_valid_state: the decimal integers are parsed, any   *)
(* other string raises ValueError.                                         *)
(***************************************************************************)
DigitChars == <<"0", "1", "2", "3", "4", "5", "6", "7", "8", "9">>

DigitValue(ch) == (CHOOSE i \in 1..10 : DigitChars[i] = ch) - 1

IsNumeric(s) ==
    /\ Len(s) > 0
    /\ \A i \in 1..Len(s) : \E d \in 1..10 : DigitChars[d] = s[i]

RECURSIVE ToNumber(_)
ToNumber(s) ==
    IF Len(s) = 0 THEN 0
    ELSE 10 * ToNumber(SubSeq(s, 1, Len(s) - 1)) + DigitValue(s[Len(s)])

\* get_valid_state: the reading as a number, or None (valid = FALSE)
get_valid_state(state) ==
    IF state \notin {None, unknown, unavailable}
    THEN IF IsNumeric(state)
         THEN [valid |-> TRUE, val |-> ToNumber(state)]
         ELSE [valid |-> FALSE, val |-> 0]
    ELSE [valid |-> FALSE, val |-> 0]

(***************************************************************************)
(* calculate_absolute_humidity in fixed point.                             *)
(*   ExpMilli(x): 100000 * e^(x/1000), the Taylor series to ExpTerms.      *)
(***************************************************************************)
RECURSIVE ExpSeries(_, _, _)
ExpSeries(x, k, term) ==
    IF k > ExpTerms THEN 0
    ELSE term + ExpSeries(x, k + 1, (term * x) \div (1000 * (k + 1)))

ExpMilli(x) == ExpSeries(x, 0, 100000)

\* relative_humidity in %, temperature in the configured unit; mg/m^3
calculate_absolute_humidity(relative_humidity, temperature) ==
    LET \* milli-degrees Celsius and milli-Kelvin
        temperature_celsius ==
            IF temperature_unit = "F"
            THEN ((temperature - 32) * 10000) \div 18
            ELSE temperature * 1000
        temperature_kelvin == temperature_celsius + 273150
        \* 17.67 * C / (C + 243.5), times 1000
        exponent == (17670 * temperature_celsius) \div (temperature_celsius + 243500)
        \* 6.112 * exp(..) * 100 Pa, times 10
        saturation_vapor_pressure == (6112 * (ExpMilli(exponent) \div 10)) \div 10000
        actual_vapor_pressure == (relative_humidity * saturation_vapor_pressure) \div 100
        \* R_w * T, with R_w = 461.5 J/(kg K)
        gas == (4615 * temperature_kelvin) \div 100000
    IN  (actual_vapor_pressure * 10000) \div gas

\* calculate_humidity_difference that takes an invalid reading for 0
calculate_humidity_difference_unchecked(s) ==
    [valid |-> TRUE,
     diff |-> calculate_absolute_humidity(get_valid_state(s.bathroom_humidity_sensor).val,
                                          get_valid_state(s.bathroom_temperature_sensor).val)
              - calculate_absolute_humidity(get_valid_state(s.living_humidity_sensor).val,
                                            get_valid_state(s.living_temperature_sensor).val)]

\* get_valid_sensor_states + calculate_humidity_difference:
\* (None, None, None) is valid = FALSE
calculate_humidity_difference(s) ==
    LET bathroom_humidity == get_valid_state(s.bathroom_humidity_sensor)
        living_humidity == get_valid_state(s.living_humidity_sensor)
        bathroom_temperature == get_valid_state(s.bathroom_temperature_sensor)
        living_temperature == get_valid_state(s.living_temperature_sensor)
    IN  IF \/ ~bathroom_humidity.valid
           \/ ~living_humidity.valid
           \/ ~bathroom_temperature.valid
           \/ ~living_temperature.valid
        THEN [valid |-> FALSE, diff |-> 0]
        ELSE [valid |-> TRUE,
              diff |-> calculate_absolute_humidity(bathroom_humidity.val,
                                                   bathroom_temperature.val)
                       - calculate_absolute_humidity(living_humidity.val,
                                                     living_temperature.val)]

(***************************************************************************)
(* State.                                                                  *)
(***************************************************************************)
VARIABLES
    app_switch,                      \* args.get("app_switch"): the entity, or NoEntity
    sensors,                         \* state store: the four sensor readings
    actor_state,                     \* state store: get_state(self.actor)
    switch_state,                    \* state store: get_state(self.app_switch)
    queue,                           \* state-change notifications not yet delivered
    sched,                           \* the scheduler's pending run_in timers
    auto_activated,                  \* self.auto_activated
    timer_turn_off,                  \* self.timer_turn_off
    manual_turn_off_timer_handle,    \* self.manual_turn_off_timer_handle
    humidity_turn_off_timer_handle,  \* self.humidity_turn_off_timer_handle
    timer_handle_list,               \* self.timer_handle_list
    last,                            \* history: the step just taken
    manual_on,                       \* history: the actor's on-period was started by hand
    args,                            \* self.args: the app's configuration
    listeners,                       \* the entities a listen_state subscription is held on
    turn_off_timer_handle,           \* StairwayFan: self.turn_off_timer_handle
    turned_on_by_me                  \* StairwayFan: self.turned_on_by_me

vars == <<app_switch, sensors, actor_state, switch_state, queue, sched,
          auto_activated, timer_turn_off, manual_turn_off_timer_handle,
          humidity_turn_off_timer_handle, timer_handle_list, last, manual_on,
          args, listeners, turn_off_timer_handle, turned_on_by_me>>

NoEntity == "none"

SwitchEntity == "input_boolean.auto_bathroom_fan"

ActorEntity == "switch.bathroom_fan"

SensorEntities == {"bathroom_humidity_sensor", "living_humidity_sensor",
                   "bathroom_temperature_sensor", "living_temperature_sensor"}

\* the keys initialize reads with self.args[...], and those it reads with .get
RequiredArgs == SensorEntities \cup {"threshold", "lower_threshold", "actor",
                                     "delay", "manual_delay"}

OptionalArgs == {"app_switch", "temperature_unit"}

\* the configuration the other definitions of the model are written for
NominalArgs(switch) ==
    [given |-> RequiredArgs \cup {"temperature_unit"}
                  \cup (IF switch = NoEntity THEN {} ELSE {"app_switch"}),
     threshold |-> threshold,
     lower_threshold |-> lower_threshold,
     delay |-> delay,
     manual_delay |-> manual_delay]

\* self.watched_entity_list: a listen_state handle is taken per entity
watched_entity_list(switch) ==
    SensorEntities \cup {ActorEntity}
        \cup (IF switch = NoEntity THEN {} ELSE {switch})

\* the fields of a StairwayFan, and the configuration and subscriptions,
\* which the callbacks of BathroomFan leave alone
StairwayVars == <<turn_off_timer_handle, turned_on_by_me>>

SetupVars == <<args, listeners>>

\* the readings the environment reports, per sensor
SensorValues ==
    [bathroom_humidity_sensor |-> {<<"4", "0">>, <<"4", "5">>, <<"7", "0">>, unavailable},
     living_humidity_sensor |-> {<<"4", "0">>, <<"a", "b", "c">>},
     bathroom_temperature_sensor |-> {<<"7", "5">>, unknown},
     living_temperature_sensor |-> {<<"7", "0">>, None}]

\* the snapshots the environment produces: at most one reading is invalid at a
\* time, and a sensor other than the bathroom humidity fails only while that
\* one reads 40
Plausible(s) ==
    /\ Cardinality({e \in SensorEntities : ~get_valid_state(s[e]).valid}) <= 1
    /\ s.bathroom_humidity_sensor \in {<<"4", "5">>, <<"7", "0">>}
           => \A e \in SensorEntities : get_valid_state(s[e]).valid

\* by: who caused the change ("user", "app", "env"); state_change never reads it
Event(entity, old, new, by) == [entity |-> entity, old |-> old, new |-> new, by |-> by]

\* a sensor's notification: state_change reads neither old nor new of it
SensorEvent(entity) == Event(entity, "-", "-", "env")

NoStep == [act |-> "env", entity |-> "-", old |-> "-", new |-> "-",
           cmd |-> "none", hot |-> FALSE, armed |-> {}, raised |-> FALSE,
           age |-> 0, calm |-> 0]

(***************************************************************************)
(* The object's fields, with the collaborators a callback acts on, as one  *)
(* record that the methods below transform.  cmd, hot, armed and raised    *)
(* trace the callback: the command it issued, whether it called            *)
(* handle_fan_turn_on, the callbacks it passed to run_in, whether an       *)
(* exception ended it.                                                     *)
(***************************************************************************)
Self ==
    [auto_activated |-> auto_activated,
     timer_turn_off |-> timer_turn_off,
     manual_turn_off_timer_handle |-> manual_turn_off_timer_handle,
     humidity_turn_off_timer_handle |-> humidity_turn_off_timer_handle,
     timer_handle_list |-> timer_handle_list,
     sched |-> sched,
     actor_state |-> actor_state,
     queue |-> queue,
     cmd |-> "none",
     hot |-> FALSE,
     armed |-> {},
     raised |-> FALSE]

\* list.remove(x): the first occurrence
RECURSIVE Remove(_, _)
Remove(list, x) ==
    IF list = <<>> THEN <<>>
    ELSE IF Head(list) = x THEN Tail(list)
    ELSE <<Head(list)>> \o Remove(Tail(list), x)

InList(list, x) == \E i \in 1..Len(list) : list[i] = x

\* hass turn_on / turn_off: the store changes and, if it did, notifies
call_service(c, new) ==
    [c EXCEPT !.actor_state = new,
              !.queue = IF c.actor_state = new THEN @
                        ELSE Append(@, Event(ActorEntity, c.actor_state, new, "app")),
              !.cmd = new]

turn_on(c) == call_service(c, "on")

turn_off(c) == call_service(c, "off")

\* a handle no live timer or attribute holds
FreshHandle(c) ==
    CHOOSE h \in 1..(Cardinality(c.sched) + Len(c.timer_handle_list) + 3) :
        /\ \A t \in c.sched : t.handle # h
        /\ ~InList(c.timer_handle_list, h)
        /\ h \notin {c.manual_turn_off_timer_handle, c.humidity_turn_off_timer_handle}
        /\ \A g \in 1..(h - 1) :
              \/ \E t \in c.sched : t.handle = g
              \/ InList(c.timer_handle_list, g)
              \/ g \in {c.manual_turn_off_timer_handle, c.humidity_turn_off_timer_handle}

\* run_in(callback, seconds): the scheduler holds the timer until it fires.
\* rem: the ticks left; age: the ticks since run_in; calm: the ticks since
\* run_in or, if later, since the difference last fell to lower_threshold or below
Timer(handle, callback, seconds) ==
    [handle |-> handle, callback |-> callback, rem |-> seconds, age |-> 0, calm |-> 0]

\* cancel_timer(handle)
cancel_timer(c, handle) ==
    [c EXCEPT !.sched = {t \in @ : t.handle # handle}]

(***************************************************************************)
(* The methods of BathroomFan.                                             *)
(***************************************************************************)
\* cancel_timer_handle(name): list.remove raises ValueError on a handle
\* the list does not hold, and the attribute is then left as it was
cancel_timer_handle(c, timer_handle_name) ==
    LET timer_handle == c[timer_handle_name]
    IN  IF timer_handle = NoHandle THEN c
        ELSE LET c1 == cancel_timer(c, timer_handle)
             IN  IF ~InList(c1.timer_handle_list, timer_handle)
                 THEN [c1 EXCEPT !.raised = TRUE]
                 ELSE [c1 EXCEPT !.timer_handle_list = Remove(@, timer_handle),
                                 ![timer_handle_name] = NoHandle]

\* handle_fan_turn_on that leaves the manual power off in place
handle_fan_turn_on_keeps_manual_timer(c) ==
    LET c1 == [c EXCEPT !.auto_activated = TRUE, !.hot = TRUE]
        c2 == IF c1.actor_state = "off" THEN turn_on(c1) ELSE c1
    IN  cancel_timer_handle(c2, "humidity_turn_off_timer_handle")

\* handle_fan_turn_on that commands the actor on whatever its state
handle_fan_turn_on_always_commands(c) ==
    LET c1 == turn_on([c EXCEPT !.auto_activated = TRUE, !.hot = TRUE])
        c2 == cancel_timer_handle(c1, "humidity_turn_off_timer_handle")
    IN  IF c2.raised THEN c2
        ELSE cancel_timer_handle(c2, "manual_turn_off_timer_handle")

\* handle_fan_turn_on that leaves a scheduled power off in place
handle_fan_turn_on_keeps_timers(c) ==
    LET c1 == [c EXCEPT !.auto_activated = TRUE, !.hot = TRUE]
    IN  IF c1.actor_state = "off" THEN turn_on(c1) ELSE c1

handle_fan_turn_on(c) ==
    LET c1 == [c EXCEPT !.auto_activated = TRUE, !.hot = TRUE]
        c2 == IF c1.actor_state = "off" THEN turn_on(c1) ELSE c1
        c3 == cancel_timer_handle(c2, "humidity_turn_off_timer_handle")
    IN  IF c3.raised THEN c3
        ELSE cancel_timer_handle(c3, "manual_turn_off_timer_handle")

\* handle_fan_turn_off without its test of the pending handle
handle_fan_turn_off_unguarded(c) ==
    IF c.actor_state = "on"
    THEN LET h == FreshHandle(c)
         IN  [c EXCEPT !.sched = @ \cup {Timer(h, "turn_off_callback", delay)},
                       !.armed = @ \cup {"turn_off_callback"},
                       !.humidity_turn_off_timer_handle = h,
                       !.timer_handle_list = Append(@, h)]
    ELSE c

handle_fan_turn_off(c) ==
    IF c.humidity_turn_off_timer_handle = NoHandle /\ c.actor_state = "on"
    THEN LET h == FreshHandle(c)
         IN  [c EXCEPT !.sched = @ \cup {Timer(h, "turn_off_callback", delay)},
                       !.armed = @ \cup {"turn_off_callback"},
                       !.humidity_turn_off_timer_handle = h,
                       !.timer_handle_list = Append(@, h)]
    ELSE c

schedule_manual_turn_off(c) ==
    IF c.manual_turn_off_timer_handle = NoHandle
    THEN LET h == FreshHandle(c)
         IN  [c EXCEPT !.sched = @ \cup {Timer(h, "manual_turn_off_callback", manual_delay)},
                       !.armed = @ \cup {"manual_turn_off_callback"},
                       !.manual_turn_off_timer_handle = h,
                       !.timer_handle_list = Append(@, h)]
    ELSE c

\* turn_off_callback that leaves the fired handle in timer_handle_list
turn_off_callback_keeps_handle_listed(c) ==
    LET c1 == turn_off([c EXCEPT !.timer_turn_off = TRUE])
    IN  [c1 EXCEPT !.humidity_turn_off_timer_handle = NoHandle,
                   !.auto_activated = FALSE]

\* turn_off_callback that leaves auto_activated set
turn_off_callback_keeps_auto(c) ==
    LET c1 == turn_off([c EXCEPT !.timer_turn_off = TRUE])
        c2 == IF InList(c1.timer_handle_list, c1.humidity_turn_off_timer_handle)
              THEN [c1 EXCEPT !.timer_handle_list =
                                  Remove(@, c1.humidity_turn_off_timer_handle)]
              ELSE c1
    IN  [c2 EXCEPT !.humidity_turn_off_timer_handle = NoHandle]

turn_off_callback(c) ==
    LET c1 == turn_off([c EXCEPT !.timer_turn_off = TRUE])
        c2 == IF InList(c1.timer_handle_list, c1.humidity_turn_off_timer_handle)
              THEN [c1 EXCEPT !.timer_handle_list =
                                  Remove(@, c1.humidity_turn_off_timer_handle)]
              ELSE c1
    IN  [c2 EXCEPT !.humidity_turn_off_timer_handle = NoHandle,
                   !.auto_activated = FALSE]

\* turn_off_callback when self.turn_off raises: lines 276-278 have run, the
\* exception leaves the callback and lines 279-282 do not run
turn_off_callback_raised(c) ==
    [c EXCEPT !.timer_turn_off = TRUE, !.cmd = "off", !.raised = TRUE]

\* manual_turn_off_callback when self.turn_off raises: lines 303-305 have
\* run, lines 306-308 do not
manual_turn_off_callback_raised(c) ==
    [c EXCEPT !.timer_turn_off = TRUE, !.cmd = "off", !.raised = TRUE]

manual_turn_off_callback(c) ==
    LET c1 == turn_off([c EXCEPT !.timer_turn_off = TRUE])
        c2 == IF InList(c1.timer_handle_list, c1.manual_turn_off_timer_handle)
              THEN [c1 EXCEPT !.timer_handle_list =
                                  Remove(@, c1.manual_turn_off_timer_handle)]
              ELSE c1
    IN  [c2 EXCEPT !.manual_turn_off_timer_handle = NoHandle]

\* switch_changed that also forgets the activation when the app switch goes off
switch_changed_resets_state(c, entity, old, new) ==
    IF entity = app_switch /\ old = "off" /\ new = "on"
    THEN IF c.actor_state = "on" /\ ~c.auto_activated
         THEN schedule_manual_turn_off(c)
         ELSE c
    ELSE IF entity = app_switch /\ old = "on" /\ new = "off"
    THEN LET c1 == cancel_timer_handle(c, "manual_turn_off_timer_handle")
             c2 == IF c1.raised THEN c1
                   ELSE cancel_timer_handle(c1, "humidity_turn_off_timer_handle")
         IN  [c2 EXCEPT !.auto_activated = FALSE]
    ELSE c

\* switch_changed that adopts a running actor whoever activated it
switch_changed_adopts_always(c, entity, old, new) ==
    IF entity = app_switch /\ old = "off" /\ new = "on"
    THEN IF c.actor_state = "on"
         THEN schedule_manual_turn_off(c)
         ELSE c
    ELSE IF entity = app_switch /\ old = "on" /\ new = "off"
    THEN LET c1 == cancel_timer_handle(c, "manual_turn_off_timer_handle")
         IN  IF c1.raised THEN c1
             ELSE cancel_timer_handle(c1, "humidity_turn_off_timer_handle")
    ELSE c

\* switch_changed that cancels nothing when the app switch goes off
switch_changed_keeps_timers(c, entity, old, new) ==
    IF entity = app_switch /\ old = "off" /\ new = "on"
    THEN IF c.actor_state = "on" /\ ~c.auto_activated
         THEN schedule_manual_turn_off(c)
         ELSE c
    ELSE c

\* state_change, lines 96-105: the app switch went on, or off
switch_changed(c, entity, old, new) ==
    IF entity = app_switch /\ old = "off" /\ new = "on"
    THEN IF c.actor_state = "on" /\ ~c.auto_activated
         THEN schedule_manual_turn_off(c)
         ELSE c
    ELSE IF entity = app_switch /\ old = "on" /\ new = "off"
    THEN LET c1 == cancel_timer_handle(c, "manual_turn_off_timer_handle")
         IN  IF c1.raised THEN c1
             ELSE cancel_timer_handle(c1, "humidity_turn_off_timer_handle")
    ELSE c

\* state_change, lines 116-132: the actor went off
actor_turned_off(c, humidity_difference) ==
    IF c.timer_turn_off
    THEN [c EXCEPT !.timer_turn_off = FALSE]
    ELSE IF c.auto_activated
    THEN LET c1 == [c EXCEPT !.auto_activated = FALSE]
         IN  IF humidity_difference > threshold
             THEN handle_fan_turn_on(c1)
             ELSE c1
    ELSE cancel_timer_handle(c, "manual_turn_off_timer_handle")

\* humidity_control that powers the actor off at once, with no timer
humidity_control_turns_off(c, humidity_difference) ==
    IF humidity_difference > threshold
    THEN handle_fan_turn_on(c)
    ELSE IF humidity_difference <= lower_threshold
    THEN IF c.manual_turn_off_timer_handle = NoHandle /\ c.actor_state = "on"
         THEN turn_off(c)
         ELSE c
    ELSE c

\* humidity_control with one threshold: power off is scheduled below threshold
humidity_control_one_threshold(c, humidity_difference) ==
    IF humidity_difference > threshold
    THEN handle_fan_turn_on(c)
    ELSE IF c.manual_turn_off_timer_handle = NoHandle
    THEN handle_fan_turn_off(c)
    ELSE c

\* state_change, lines 139-144: normal humidity-based control
humidity_control(c, humidity_difference) ==
    IF humidity_difference > threshold
    THEN handle_fan_turn_on(c)
    ELSE IF humidity_difference <= lower_threshold
    THEN IF c.manual_turn_off_timer_handle = NoHandle
         THEN handle_fan_turn_off(c)
         ELSE c
    ELSE c

\* terminate that releases the subscriptions and leaves the timers
terminate_keeps_timers(c) == c

\* terminate, lines 327-328: cancel_timer for every handle of the list
terminate(c) ==
    [c EXCEPT !.sched = {t \in @ : ~InList(c.timer_handle_list, t.handle)}]

\* state_change without its test of the app switch
switched_off_ignored == FALSE

\* the app switch is configured and off: state_change stops (line 107)
switched_off == app_switch # NoEntity /\ switch_state = "off"

state_change(c, entity, old, new) ==
    LET c1 == switch_changed(c, entity, old, new)
        difference == calculate_humidity_difference(sensors)
    IN  IF c1.raised THEN c1
        ELSE IF switched_off THEN c1
        ELSE IF ~difference.valid THEN c1
        ELSE IF entity = ActorEntity /\ old = "on" /\ new = "off"
        THEN actor_turned_off(c1, difference.diff)
        ELSE IF entity = ActorEntity /\ new = "on" /\ old = "off" /\ ~c1.auto_activated
        THEN schedule_manual_turn_off(c1)
        ELSE humidity_control(c1, difference.diff)

(***************************************************************************)
(* Where the difference of a snapshot lies.                                *)
(***************************************************************************)
Valid(s) == \A e \in SensorEntities : get_valid_state(s[e]).valid

Difference(s) ==
    calculate_absolute_humidity(get_valid_state(s.bathroom_humidity_sensor).val,
                                get_valid_state(s.bathroom_temperature_sensor).val)
    - calculate_absolute_humidity(get_valid_state(s.living_humidity_sensor).val,
                                  get_valid_state(s.living_temperature_sensor).val)

Above(s) == Valid(s) /\ Difference(s) > threshold

Low(s) == Valid(s) /\ Difference(s) <= lower_threshold

DeadZone(s) == Valid(s) /\ Difference(s) > lower_threshold /\ Difference(s) < threshold

(***************************************************************************)
(* Actions.                                                                *)
(***************************************************************************)
\* initialize: self.args[key] raises KeyError for a key that is not given;
\* nothing else of the configuration is examined.  The listen_state calls
\* (lines 60-63) come after every read of self.args
initialize(a) ==
    IF RequiredArgs \subseteq a.given
    THEN [raised |-> FALSE,
          threshold |-> a.threshold,
          lower_threshold |-> a.lower_threshold,
          delay |-> a.delay,
          manual_delay |-> a.manual_delay,
          listeners |-> watched_entity_list(IF "app_switch" \in a.given
                                            THEN SwitchEntity ELSE NoEntity)]
    ELSE [raised |-> TRUE,
          threshold |-> 0,
          lower_threshold |-> 0,
          delay |-> 0,
          manual_delay |-> 0,
          listeners |-> {}]

\* initialize (lines 29-34), over every state the store may be in
Init ==
    /\ app_switch \in {SwitchEntity, NoEntity}
    /\ sensors \in {s \in [SensorEntities -> UNION {SensorValues[e] : e \in SensorEntities}] :
                      /\ \A e \in SensorEntities : s[e] \in SensorValues[e]
                      /\ Plausible(s)}
    /\ actor_state \in {"on", "off"}
    /\ switch_state \in (IF app_switch = NoEntity THEN {"on"} ELSE {"on", "off"})
    /\ queue = <<>>
    /\ sched = {}
    /\ auto_activated = FALSE
    /\ timer_turn_off = FALSE
    /\ manual_turn_off_timer_handle = NoHandle
    /\ humidity_turn_off_timer_handle = NoHandle
    /\ timer_handle_list = <<>>
    /\ last = NoStep
    /\ manual_on = FALSE
    /\ args = NominalArgs(app_switch)
    /\ listeners = watched_entity_list(app_switch)
    /\ turn_off_timer_handle = NoHandle
    /\ turned_on_by_me = FALSE

\* the fields and collaborators as a callback left them
Commit(c, step) ==
    /\ auto_activated' = c.auto_activated
    /\ timer_turn_off' = c.timer_turn_off
    /\ manual_turn_off_timer_handle' = c.manual_turn_off_timer_handle
    /\ humidity_turn_off_timer_handle' = c.humidity_turn_off_timer_handle
    /\ timer_handle_list' = c.timer_handle_list
    /\ sched' = c.sched
    /\ actor_state' = c.actor_state
    /\ queue' = c.queue
    /\ last' = [step EXCEPT !.cmd = c.cmd, !.hot = c.hot, !.armed = c.armed,
                         !.raised = c.raised]
    /\ manual_on' = IF c.actor_state = "off" \/ c.hot THEN FALSE ELSE manual_on
    /\ UNCHANGED <<app_switch, sensors, switch_state>>
    /\ UNCHANGED <<SetupVars, StairwayVars>>

ControllerVars == <<auto_activated, timer_turn_off, manual_turn_off_timer_handle,
                    humidity_turn_off_timer_handle, timer_handle_list>>

\* a sensor reports another reading
EnvSensor ==
    \E e \in SensorEntities : \E v \in SensorValues[e] :
        /\ e \in listeners
        /\ Len(queue) < MaxQueue
        /\ v # sensors[e]
        /\ Plausible([sensors EXCEPT ![e] = v])
        /\ sensors' = [sensors EXCEPT ![e] = v]
        /\ queue' = Append(queue, SensorEvent(e))
        /\ last' = NoStep
        /\ manual_on' = (manual_on /\ ~Above(sensors'))
        /\ sched' = IF Low(sensors') /\ ~Low(sensors)
                     THEN {IF t.callback = "turn_off_callback"
                           THEN [t EXCEPT !.calm = 0] ELSE t : t \in sched}
                     ELSE sched
        /\ UNCHANGED <<app_switch, actor_state, switch_state>>
        /\ UNCHANGED <<ControllerVars, SetupVars, StairwayVars>>

\* somebody switches the actor by hand
EnvActor ==
    LET new == IF actor_state = "on" THEN "off" ELSE "on"
    IN  /\ ActorEntity \in listeners
        /\ Len(queue) < MaxQueue
        /\ actor_state' = new
        /\ queue' = Append(queue, Event(ActorEntity, actor_state, new, "user"))
        /\ manual_on' = (new = "on" /\ ~auto_activated)
        /\ last' = NoStep
        /\ UNCHANGED <<app_switch, sensors, switch_state, sched>>
        /\ UNCHANGED <<ControllerVars, SetupVars, StairwayVars>>

\* somebody switches the app switch
EnvSwitch ==
    LET new == IF switch_state = "on" THEN "off" ELSE "on"
    IN  /\ app_switch \in listeners
        /\ Len(queue) < MaxQueue
        /\ switch_state' = new
        /\ queue' = Append(queue, Event(app_switch, switch_state, new, "user"))
        /\ last' = NoStep
        /\ UNCHANGED <<app_switch, sensors, actor_state, sched, manual_on>>
        /\ UNCHANGED <<ControllerVars, SetupVars, StairwayVars>>

\* time passes, no further than the next timer that is due
Tick ==
    /\ sched # {}
    /\ \A t \in sched : t.rem > 0
    /\ sched' = {[t EXCEPT !.rem = @ - 1, !.age = @ + 1, !.calm = @ + 1] : t \in sched}
    /\ last' = NoStep
    /\ UNCHANGED <<app_switch, sensors, actor_state, switch_state, queue, manual_on>>
    /\ UNCHANGED <<ControllerVars, SetupVars, StairwayVars>>

\* the oldest notification is delivered to state_change
HandleEvent ==
    /\ queue # <<>>
    /\ Head(queue).entity \in listeners
    /\ LET ev == Head(queue)
           c == state_change([Self EXCEPT !.queue = Tail(queue)],
                             ev.entity, ev.old, ev.new)
       IN  Commit(c, [NoStep EXCEPT !.act = "state_change", !.entity = ev.entity,
                                    !.old = ev.old, !.new = ev.new])

\* the scheduler runs turn_off_callback of a timer that is due
FireHumidityTimer ==
    \E t \in sched :
        /\ t.callback = "turn_off_callback"
        /\ t.rem = 0
        /\ Commit(turn_off_callback([Self EXCEPT !.sched = sched \ {t}]),
                  [NoStep EXCEPT !.act = "turn_off_callback", !.age = t.age,
                                 !.calm = t.calm])

\* the scheduler runs manual_turn_off_callback of a timer that is due
FireManualTimer ==
    \E t \in sched :
        /\ t.callback = "manual_turn_off_callback"
        /\ t.rem = 0
        /\ Commit(manual_turn_off_callback([Self EXCEPT !.sched = sched \ {t}]),
                  [NoStep EXCEPT !.act = "manual_turn_off_callback", !.age = t.age,
                                 !.calm = t.calm])

\* the configurations an installation may hand to initialize: at most one key
\* is left out, the lower threshold lies below, at or above the threshold,
\* a delay is negative, zero or positive
ArgSets ==
    {[given |-> (RequiredArgs \cup OptionalArgs) \ left_out,
      threshold |-> threshold,
      lower_threshold |-> low,
      delay |-> d,
      manual_delay |-> m] :
        left_out \in {{}} \cup {{k} : k \in RequiredArgs \cup OptionalArgs},
        low \in {lower_threshold, threshold, threshold + 1},
        d \in {-1, 0, delay},
        m \in {-1, 0, manual_delay}}

\* the app is loaded: the object exists, initialize has not run
ConfigInit ==
    /\ args \in ArgSets
    /\ app_switch = (IF "app_switch" \in args.given THEN SwitchEntity ELSE NoEntity)
    /\ sensors \in {s \in [SensorEntities -> UNION {SensorValues[e] : e \in SensorEntities}] :
                      /\ \A e \in SensorEntities : s[e] \in SensorValues[e]
                      /\ Plausible(s)}
    /\ actor_state = "off"
    /\ switch_state = "on"
    /\ queue = <<>>
    /\ sched = {}
    /\ auto_activated = FALSE
    /\ timer_turn_off = FALSE
    /\ manual_turn_off_timer_handle = NoHandle
    /\ humidity_turn_off_timer_handle = NoHandle
    /\ timer_handle_list = <<>>
    /\ last = NoStep
    /\ manual_on = FALSE
    /\ listeners = {}
    /\ turn_off_timer_handle = NoHandle
    /\ turned_on_by_me = FALSE

\* AppDaemon runs initialize
Initialize ==
    /\ last = NoStep
    /\ listeners = {}
    /\ LET c == initialize(args)
       IN  /\ listeners' = c.listeners
           /\ last' = [NoStep EXCEPT !.act = "initialize", !.raised = c.raised]
    /\ UNCHANGED <<app_switch, sensors, actor_state, switch_state, queue, sched,
                   manual_on, args>>
    /\ UNCHANGED <<ControllerVars, StairwayVars>>

ConfigNext == Initialize

ConfigSpec == ConfigInit /\ [][ConfigNext]_vars

\* self.listen_state_handle_list: one handle per watched entity
listen_state_handle_list == watched_entity_list(app_switch)

\* AppDaemon stops the app: terminate runs (lines 325-326 release the
\* subscriptions, lines 327-328 cancel the timers)
Terminate ==
    /\ last.act # "terminate"
    /\ LET c == terminate(Self)
       IN  /\ sched' = c.sched
           /\ listeners' = listeners \ listen_state_handle_list
           /\ last' = [NoStep EXCEPT !.act = "terminate"]
    /\ UNCHANGED <<app_switch, sensors, actor_state, switch_state, queue, manual_on,
                   args>>
    /\ UNCHANGED <<ControllerVars, StairwayVars>>

Next ==
    \/ EnvSensor
    \/ EnvActor
    \/ EnvSwitch
    \/ Tick
    \/ HandleEvent
    \/ FireHumidityTimer
    \/ FireManualTimer

Spec == Init /\ [][Next]_vars

\* the scheduler runs turn_off_callback of a timer that is due, and the
\* command to the actor fails
FireHumidityTimerFails ==
    \E t \in sched :
        /\ t.callback = "turn_off_callback"
        /\ t.rem = 0
        /\ Commit(turn_off_callback_raised([Self EXCEPT !.sched = sched \ {t}]),
                  [NoStep EXCEPT !.act = "turn_off_callback", !.age = t.age,
                                 !.calm = t.calm])

\* the scheduler runs manual_turn_off_callback of a timer that is due, and the
\* command to the actor fails
FireManualTimerFails ==
    \E t \in sched :
        /\ t.callback = "manual_turn_off_callback"
        /\ t.rem = 0
        /\ Commit(manual_turn_off_callback_raised([Self EXCEPT !.sched = sched \ {t}]),
                  [NoStep EXCEPT !.act = "manual_turn_off_callback", !.age = t.age,
                                 !.calm = t.calm])

\* somebody switches the app switch again while the notification of the last
\* switching has not been delivered yet
EnvSwitchBack ==
    LET new == IF switch_state = "on" THEN "off" ELSE "on"
    IN  /\ app_switch \in listeners
        /\ queue # <<>>
        /\ queue[Len(queue)].entity = app_switch
        /\ Len(queue) < MaxQueue + 1
        /\ switch_state' = new
        /\ queue' = Append(queue, Event(app_switch, switch_state, new, "user"))
        /\ last' = NoStep
        /\ UNCHANGED <<app_switch, sensors, actor_state, sched, manual_on>>
        /\ UNCHANGED <<ControllerVars, SetupVars, StairwayVars>>

\* the controller with an app switch that is switched faster than its
\* notifications are delivered
BacklogNext ==
    \/ EnvSensor
    \/ EnvActor
    \/ EnvSwitch
    \/ EnvSwitchBack
    \/ Tick
    \/ HandleEvent
    \/ FireHumidityTimer
    \/ FireManualTimer

BacklogSpec == Init /\ [][BacklogNext]_vars

\* the controller with a command channel that may fail
FaultNext ==
    \/ EnvSensor
    \/ EnvActor
    \/ EnvSwitch
    \/ Tick
    \/ HandleEvent
    \/ FireHumidityTimer
    \/ FireManualTimer
    \/ FireHumidityTimerFails
    \/ FireManualTimerFails

FaultSpec == Init /\ [][FaultNext]_vars

\* the controller at work until AppDaemon stops it
ShutdownNext ==
    \/ EnvSensor
    \/ EnvActor
    \/ EnvSwitch
    \/ Tick
    \/ HandleEvent
    \/ FireHumidityTimer
    \/ FireManualTimer
    \/ Terminate

ShutdownSpec == Init /\ [][ShutdownNext]_vars

\* the scheduler at work: time passes, or a timer that is due is run
Scheduler == Tick \/ FireHumidityTimer \/ FireManualTimer

\* the scheduler never stops while a timer is pending
FairSpec == Spec /\ WF_vars(Scheduler)

(***************************************************************************)
(* StairwayFan (src/stairway_fan.py): turns a fan on when the upper floor  *)
(* is warmer than the lower floor by more than the threshold entity's      *)
(* value, and schedules its power off at the lower threshold.  It shares   *)
(* the collaborators of the model (the store, the queue of notifications,  *)
(* the scheduler); `sensors` holds the four entities it reads.  It does    *)
(* not subscribe to its actor.                                             *)
(***************************************************************************)
\* handles run_in may have handed out before the model stops scheduling
MaxHandles == 2

StairwaySwitchEntity == "input_boolean.stairway_fan"

StairwayEntities == {"upper_temp_sensor", "lower_temp_sensor",
                     "threshold_entity", "lower_threshold_entity"}

\* the states the environment gives the four entities
StairwayValues ==
    [upper_temp_sensor |-> {<<"7", "0">>, <<"7", "2">>, <<"7", "5">>, unavailable},
     lower_temp_sensor |-> {<<"7", "0">>},
     threshold_entity |-> {<<"3">>, unknown},
     lower_threshold_entity |-> {<<"1">>}]

\* the keys StairwayFan.initialize reads, all with self.args[...]
StairwayArgs ==
    [given |-> StairwayEntities \cup {"app_switch", "actor", "delay"},
     delay |-> delay]

\* the fields of the StairwayFan object with the collaborators a callback
\* acts on; cmd, hot, armed and raised trace the callback as in Self
StairwaySelf ==
    [turn_off_timer_handle |-> turn_off_timer_handle,
     turned_on_by_me |-> turned_on_by_me,
     timer_handle_list |-> timer_handle_list,
     sched |-> sched,
     actor_state |-> actor_state,
     cmd |-> "none",
     hot |-> FALSE,
     armed |-> {},
     raised |-> FALSE]

\* turn_on / turn_off of the actor: no subscription is held on it, so the
\* change is not notified
StairwayFan_call_service(c, new) ==
    [c EXCEPT !.actor_state = new, !.cmd = new]

\* a handle run_in has not handed out before
StairwayFan_FreshHandle(c) ==
    CHOOSE h \in 1..(Cardinality(c.sched) + Len(c.timer_handle_list) + 2) :
        /\ \A t \in c.sched : t.handle # h
        /\ ~InList(c.timer_handle_list, h)
        /\ h # c.turn_off_timer_handle
        /\ \A g \in 1..(h - 1) :
              \/ \E t \in c.sched : t.handle = g
              \/ InList(c.timer_handle_list, g)
              \/ g = c.turn_off_timer_handle

StairwayFan_handle_fan_turn_on(c) ==
    LET c1 == IF c.actor_state # "on"
              THEN [StairwayFan_call_service(c, "on") EXCEPT !.turned_on_by_me = TRUE]
              ELSE c
        c2 == [c1 EXCEPT !.hot = TRUE]
    IN  IF c2.turn_off_timer_handle # NoHandle
        THEN LET c3 == cancel_timer(c2, c2.turn_off_timer_handle)
             IN  IF ~InList(c3.timer_handle_list, c3.turn_off_timer_handle)
                 THEN [c3 EXCEPT !.raised = TRUE]
                 ELSE [c3 EXCEPT !.timer_handle_list = Remove(@, c3.turn_off_timer_handle),
                                 !.turn_off_timer_handle = NoHandle]
        ELSE c2

StairwayFan_handle_fan_turn_off(c) ==
    IF c.turned_on_by_me /\ c.actor_state # "off"
    THEN IF c.turn_off_timer_handle = NoHandle
         THEN LET h == StairwayFan_FreshHandle(c)
              IN  [c EXCEPT !.sched = @ \cup {Timer(h, "turn_off_callback", delay)},
                            !.armed = @ \cup {"turn_off_callback"},
                            !.turn_off_timer_handle = h,
                            !.timer_handle_list = Append(@, h)]
         ELSE c
    ELSE c

\* turn_off_callback: the handle stays in timer_handle_list
StairwayFan_turn_off_callback(c) ==
    LET c1 == IF c.turned_on_by_me
              THEN [StairwayFan_call_service(c, "off") EXCEPT !.turned_on_by_me = FALSE]
              ELSE c
    IN  [c1 EXCEPT !.turn_off_timer_handle = NoHandle]

\* state_change: entity, old and new are only logged
StairwayFan_state_change(c) ==
    IF switch_state # "on" THEN c
    ELSE LET upper_temp == get_valid_state(sensors.upper_temp_sensor)
             lower_temp == get_valid_state(sensors.lower_temp_sensor)
             limit == get_valid_state(sensors.threshold_entity)
             lower_limit == get_valid_state(sensors.lower_threshold_entity)
         IN  IF \/ ~upper_temp.valid
                \/ ~lower_temp.valid
                \/ ~limit.valid
                \/ ~lower_limit.valid
             THEN c
             ELSE LET temp_difference == upper_temp.val - lower_temp.val
                  IN  IF temp_difference > limit.val
                      THEN StairwayFan_handle_fan_turn_on(c)
                      ELSE IF temp_difference <= lower_limit.val
                      THEN StairwayFan_handle_fan_turn_off(c)
                      ELSE c

\* StairwayFan.initialize (lines 21-46), over every state the store may be in
StairwayInit ==
    /\ app_switch = StairwaySwitchEntity
    /\ sensors \in {s \in [StairwayEntities -> UNION {StairwayValues[e] : e \in StairwayEntities}] :
                      \A e \in StairwayEntities : s[e] \in StairwayValues[e]}
    /\ actor_state \in {"on", "off"}
    /\ switch_state \in {"on", "off"}
    /\ queue = <<>>
    /\ sched = {}
    /\ timer_handle_list = <<>>
    /\ turn_off_timer_handle = NoHandle
    /\ turned_on_by_me = FALSE
    /\ args = StairwayArgs
    /\ listeners = {StairwaySwitchEntity} \cup StairwayEntities
    /\ last = NoStep
    /\ auto_activated = FALSE
    /\ timer_turn_off = FALSE
    /\ manual_turn_off_timer_handle = NoHandle
    /\ humidity_turn_off_timer_handle = NoHandle
    /\ manual_on = (actor_state = "on")

\* the variables that hold the fields of a BathroomFan object
BathroomVars == <<auto_activated, timer_turn_off, manual_turn_off_timer_handle,
                  humidity_turn_off_timer_handle>>

\* the fields and collaborators as a callback of StairwayFan left them
StairwayCommit(c, step) ==
    /\ turn_off_timer_handle' = c.turn_off_timer_handle
    /\ turned_on_by_me' = c.turned_on_by_me
    /\ timer_handle_list' = c.timer_handle_list
    /\ sched' = c.sched
    /\ actor_state' = c.actor_state
    /\ last' = [step EXCEPT !.cmd = c.cmd, !.hot = c.hot, !.armed = c.armed,
                         !.raised = c.raised]
    /\ manual_on' = IF c.cmd = "on" \/ c.actor_state = "off" THEN FALSE ELSE manual_on
    /\ UNCHANGED <<app_switch, sensors, switch_state, SetupVars, BathroomVars>>

\* one of the four entities reports another state
StairwayEnvReading ==
    \E e \in StairwayEntities : \E v \in StairwayValues[e] :
        /\ e \in listeners
        /\ Len(queue) < MaxQueue
        /\ v # sensors[e]
        /\ sensors' = [sensors EXCEPT ![e] = v]
        /\ queue' = Append(queue, SensorEvent(e))
        /\ last' = NoStep
        /\ UNCHANGED <<app_switch, actor_state, switch_state, sched, timer_handle_list>>
        /\ UNCHANGED <<SetupVars, StairwayVars, BathroomVars, manual_on>>

\* somebody switches the actor by hand: StairwayFan is not notified
StairwayEnvActor ==
    /\ ActorEntity \notin listeners
    /\ actor_state' = (IF actor_state = "on" THEN "off" ELSE "on")
    /\ manual_on' = (actor_state' = "on")
    /\ last' = NoStep
    /\ UNCHANGED <<app_switch, sensors, switch_state, queue, sched, timer_handle_list>>
    /\ UNCHANGED <<SetupVars, StairwayVars, BathroomVars>>

\* the oldest notification is delivered to StairwayFan.state_change
StairwayHandleEvent ==
    /\ queue # <<>>
    /\ Head(queue).entity \in listeners
    /\ LET ev == Head(queue)
           c == StairwayFan_state_change(StairwaySelf)
       IN  /\ Len(c.timer_handle_list) <= MaxHandles
           /\ queue' = Tail(queue)
           /\ StairwayCommit(c, [NoStep EXCEPT !.act = "state_change", !.entity = ev.entity,
                                               !.old = ev.old, !.new = ev.new])

\* the scheduler runs StairwayFan.turn_off_callback of a timer that is due
StairwayFireTimer ==
    \E t \in sched :
        /\ t.callback = "turn_off_callback"
        /\ t.rem = 0
        /\ UNCHANGED queue
        /\ StairwayCommit(StairwayFan_turn_off_callback([StairwaySelf EXCEPT !.sched = sched \ {t}]),
                          [NoStep EXCEPT !.act = "turn_off_callback", !.age = t.age,
                                         !.calm = t.calm])

StairwayNext ==
    \/ StairwayEnvReading
    \/ StairwayEnvActor
    \/ EnvSwitch
    \/ Tick
    \/ StairwayHandleEvent
    \/ StairwayFireTimer

StairwaySpec == StairwayInit /\ [][StairwayNext]_vars

(***************************************************************************)
(* Vocabulary of the properties.                                           *)
(***************************************************************************)
\* the scheduler's pending timers that run `callback`
Pending(callback) == {t \in sched : t.callback = callback}

\* the step taken is state_change, delivered the head of the queue
Handling == last'.act = "state_change"

ActorOff(by) == Event(ActorEntity, "on", "off", by)

ActorOn(by) == Event(ActorEntity, "off", "on", by)

SwitchOff == Event(app_switch, "on", "off", "user")

SwitchOn == Event(app_switch, "off", "on", "user")

\* the gate is configured and the store holds it off
GateOff == app_switch = SwitchEntity /\ switch_state = "off"

\* ... and state_change has been told of it: no notification of the gate is pending
GateOffHandled ==
    /\ GateOff
    /\ \A i \in 1..Len(queue) : queue[i].entity # app_switch

\* the callback left the object and the scheduler as they were, and commanded nothing
Untouched ==
    /\ UNCHANGED ControllerVars
    /\ sched' = sched
    /\ last'.cmd = "none"

(***************************************************************************)
(* C1: at every moment the scheduler holds at most one pending             *)
(* turn_off_callback (AutoShutoff) timer and at most one pending           *)
(* manual_turn_off_callback (ManualShutoff) timer.                         *)
(***************************************************************************)
C1_AtMostOneTimerPerKind ==
    /\ Cardinality(Pending("turn_off_callback")) <= 1
    /\ Cardinality(Pending("manual_turn_off_callback")) <= 1

\* state_change found the difference low and the actor on, no ManualShutoff
\* timer pending, and an AutoShutoff timer pending that was already a tick old
C1_Witness ==
    /\ last.act = "state_change"
    /\ last.entity \in SensorEntities
    /\ Low(sensors)
    /\ ~GateOff
    /\ actor_state = "on"
    /\ manual_turn_off_timer_handle = NoHandle
    /\ \E t \in Pending("turn_off_callback") : t.age > 0
    /\ last.armed = {}

(***************************************************************************)
(* C2 (as claimed): whenever state_change is delivered an actor on -> off  *)
(* that a user caused, while auto_activated holds, the gate is not off and *)
(* the difference is above threshold, it commands the actor on again and   *)
(* auto_activated holds when it returns.                                   *)
(***************************************************************************)
C2_ManualOffReescalates ==
    [][(/\ Handling
        /\ Head(queue) = ActorOff("user")
        /\ auto_activated
        /\ ~GateOff
        /\ Above(sensors))
       => (/\ last'.cmd = "on"
           /\ actor_state' = "on"
           /\ auto_activated')]_vars

(***************************************************************************)
(* C3: once state_change has been told that the gate went off, and as long *)
(* as the gate stays off, no AutoShutoff or ManualShutoff timer is         *)
(* pending, and no step - state_change or a timer callback - commands the  *)
(* actor, whatever the sensors report.                                     *)
(***************************************************************************)
C3_GateOffFreezes ==
    /\ [](GateOffHandled =>
             /\ sched = {}
             /\ humidity_turn_off_timer_handle = NoHandle
             /\ manual_turn_off_timer_handle = NoHandle)
    /\ [][GateOffHandled => last'.cmd = "none"]_vars

\* with the gate off, state_change was told of a sensor change that put the
\* difference above threshold while the actor is off, and left the actor off
C3_Witness ==
    /\ GateOffHandled
    /\ last.act = "state_change"
    /\ last.entity \in SensorEntities
    /\ Above(sensors)
    /\ actor_state = "off"

(***************************************************************************)
(* C4 (as claimed): an AutoShutoff timer that fires during an automatic    *)
(* activation commands the actor off no sooner than `delay` after the      *)
(* difference last fell to lower_threshold or below.                       *)
(***************************************************************************)
C4_OffOnlyDelayAfterLastDrop ==
    [][(last'.act = "turn_off_callback" /\ auto_activated) => last'.calm >= delay]_vars

(***************************************************************************)
(* C4 (amended): a call of handle_fan_turn_on leaves auto_activated set,   *)
(* the actor on (commanded on if it was off) and no timer pending; the     *)
(* actor is commanded off only by a timer callback, and by                 *)
(* turn_off_callback only when its timer has run the full `delay`; and     *)
(* that timer is scheduled only by a state_change that found the           *)
(* difference at or below lower_threshold.  The delay runs from the        *)
(* scheduling evaluation: a later fall of the difference does not          *)
(* restart it.                                                             *)
(***************************************************************************)
C4_Hysteresis ==
    [][/\ last'.hot =>
             /\ auto_activated'
             /\ actor_state' = "on"
             /\ (actor_state = "off" => last'.cmd = "on")
             /\ sched' = {}
             /\ humidity_turn_off_timer_handle' = NoHandle
             /\ manual_turn_off_timer_handle' = NoHandle
       /\ last'.cmd = "off" =>
             /\ last'.act \in {"turn_off_callback", "manual_turn_off_callback"}
             /\ (last'.act = "turn_off_callback" => last'.age = delay)
       /\ "turn_off_callback" \in last'.armed =>
             /\ Handling
             /\ Low(sensors)
             /\ ~last'.hot]_vars

\* an AutoShutoff timer fired after its full delay, although the difference
\* had fallen to the lower threshold again less than `delay` before
C4_Witness ==
    /\ last.act = "turn_off_callback"
    /\ last.cmd = "off"
    /\ last.age = delay
    /\ last.calm < delay
    /\ actor_state = "off"

(***************************************************************************)
(* C5 (as claimed): a state_change that finds the difference strictly      *)
(* between lower_threshold and threshold commands nothing and schedules    *)
(* no timer, whatever the event.                                           *)
(***************************************************************************)
C5_DeadZoneSchedulesNothing ==
    [][(Handling /\ DeadZone(sensors))
       => (last'.cmd = "none" /\ last'.armed = {})]_vars

(***************************************************************************)
(* C5 (amended): a state_change that finds the difference strictly between *)
(* lower_threshold and threshold commands nothing and schedules no         *)
(* AutoShutoff timer; it schedules a ManualShutoff timer only for an actor *)
(* off -> on, or a gate off -> on with the actor on, while auto_activated  *)
(* is false; a sensor event schedules nothing.                             *)
(***************************************************************************)
C5_DeadZoneStable ==
    [][(Handling /\ DeadZone(sensors))
       => (/\ last'.cmd = "none"
           /\ "turn_off_callback" \notin last'.armed
           /\ last'.armed # {} =>
                 /\ ~auto_activated
                 /\ \/ Head(queue).entity = ActorEntity
                          /\ Head(queue).old = "off" /\ Head(queue).new = "on"
                    \/ Head(queue) = SwitchOn /\ actor_state = "on")]_vars

\* a sensor change was handled in the dead zone, gate on, actor on after an
\* automatic activation: nothing was commanded or scheduled
C5_Witness ==
    /\ last.act = "state_change"
    /\ last.entity \in SensorEntities
    /\ DeadZone(sensors)
    /\ ~GateOff
    /\ actor_state = "on"
    /\ auto_activated
    /\ last.cmd = "none"
    /\ sched = {}

(***************************************************************************)
(* C6 (as claimed): when the ManualShutoff timer fires with the difference *)
(* above threshold, the actor is left as it is, nothing is commanded and   *)
(* no timer is scheduled; with the difference at or below threshold the    *)
(* actor is commanded off and the shutoff marked self-caused.              *)
(***************************************************************************)
C6_ManualFiringRechecks ==
    [][last'.act = "manual_turn_off_callback"
       => (/\ Above(sensors) =>
                 /\ last'.cmd = "none"
                 /\ actor_state' = actor_state
                 /\ last'.armed = {}
           /\ (Valid(sensors) /\ ~Above(sensors)) =>
                 /\ last'.cmd = "off"
                 /\ timer_turn_off')]_vars

(***************************************************************************)
(* C7 (as claimed): an on-period of the actor that a user started while    *)
(* auto_activated was false, and during which the difference has not been  *)
(* above threshold, is never ended by turn_off_callback, the AutoShutoff   *)
(* timer with the automatic delay.                                         *)
(***************************************************************************)
C7_ManualOnNeverAutoShutoff ==
    [][last'.act = "turn_off_callback" => ~manual_on]_vars

(***************************************************************************)
(* C8 (as claimed): a state_change that finds one of the four readings     *)
(* invalid leaves auto_activated, the marker and both timers as they were  *)
(* and commands nothing, whatever the event.                               *)
(***************************************************************************)
C8_InvalidSnapshotNoOp ==
    [][(Handling /\ ~Valid(sensors)) => Untouched]_vars

(***************************************************************************)
(* C8 (amended): a state_change that finds one of the four readings        *)
(* invalid leaves auto_activated and the marker as they were and commands  *)
(* nothing; for a sensor or actor event it leaves both timers as they      *)
(* were too.  A gate event is acted on before the readings are looked at:  *)
(* on -> off cancels both timers, off -> on schedules a ManualShutoff      *)
(* timer if the actor is on and auto_activated is false.                   *)
(***************************************************************************)
C8_InvalidSnapshotSkipsEvaluation ==
    [][(Handling /\ ~Valid(sensors))
       => (/\ auto_activated' = auto_activated
           /\ timer_turn_off' = timer_turn_off
           /\ last'.cmd = "none"
           /\ "turn_off_callback" \notin last'.armed
           /\ Head(queue).entity # app_switch => Untouched
           /\ Head(queue) = SwitchOff => sched' = {}
           /\ Head(queue) = SwitchOn =>
                 (last'.armed # {} <=>
                     /\ actor_state = "on"
                     /\ ~auto_activated
                     /\ manual_turn_off_timer_handle = NoHandle))]_vars

\* a user switched the actor off while a reading was invalid and a
\* ManualShutoff timer was pending: state_change left the timer pending
C8_Witness ==
    /\ last.act = "state_change"
    /\ last.entity = ActorEntity
    /\ last.old = "on"
    /\ ~Valid(sensors)
    /\ ~GateOff
    /\ Pending("manual_turn_off_callback") # {}
    /\ actor_state = "off"

(***************************************************************************)
(* C9 (as claimed): an actor switched off by hand while auto_activated     *)
(* holds and the gate is off is no longer regarded as auto-activated once  *)
(* state_change has been told of it.                                       *)
(***************************************************************************)
C9_GateOffObservesManualOff ==
    [][(/\ Handling
        /\ Head(queue) = ActorOff("user")
        /\ GateOff
        /\ auto_activated)
       => ~auto_activated']_vars

(***************************************************************************)
(* C9 (amended): while the gate is off, state_change takes no account of   *)
(* an actor on -> off or off -> on: it leaves auto_activated, the marker   *)
(* and the timers as they were and commands nothing, so auto_activated is  *)
(* what it was when the gate went off.                                     *)
(***************************************************************************)
C9_GateOffIgnoresActor ==
    [][(/\ Handling
        /\ Head(queue).entity = ActorEntity
        /\ GateOff)
       => Untouched]_vars

\* the gate is off, a user switched the automatically activated actor off,
\* state_change was told, and auto_activated still holds
C9_Witness ==
    /\ last.act = "state_change"
    /\ last.entity = ActorEntity
    /\ last.old = "on"
    /\ GateOff
    /\ actor_state = "off"
    /\ auto_activated

(***************************************************************************)
(* C10: a state_change that reaches the humidity control with the          *)
(* difference at or below lower_threshold, the actor on, the gate not off  *)
(* and no ManualShutoff timer pending leaves an AutoShutoff timer pending; *)
(* a pending AutoShutoff timer in the end fires, unless a state_change     *)
(* cancels it first (leaving none pending, or scheduling the next one);    *)
(* and when it fires the actor is commanded off, the handle is cleared     *)
(* and auto_activated is false.                                            *)
(***************************************************************************)
C10_AutoShutoffCompletes ==
    /\ [](/\ (/\ last.act = "state_change"
              /\ ~(last.entity = ActorEntity /\ last.new = "off")
              /\ Low(sensors)
              /\ actor_state = "on"
              /\ ~GateOff
              /\ manual_turn_off_timer_handle = NoHandle)
             => (/\ humidity_turn_off_timer_handle # NoHandle
                 /\ \E t \in sched : /\ t.callback = "turn_off_callback"
                                     /\ t.handle = humidity_turn_off_timer_handle)
          /\ last.act = "turn_off_callback"
             => (/\ last.cmd = "off"
                 /\ actor_state = "off"
                 /\ humidity_turn_off_timer_handle = NoHandle
                 /\ \A t \in sched : t.callback # "turn_off_callback"
                 /\ ~auto_activated))
    /\ (humidity_turn_off_timer_handle # NoHandle)
           ~> (\/ last.act = "turn_off_callback"
               \/ /\ last.act = "state_change"
                  /\ \/ humidity_turn_off_timer_handle = NoHandle
                     \/ "turn_off_callback" \in last.armed)

\* the AutoShutoff timer has fired after its delay: the actor is off, no
\* timer is left, auto_activated is false and the shutoff is marked
C10_Witness ==
    /\ last.act = "turn_off_callback"
    /\ last.age = delay
    /\ last.cmd = "off"
    /\ actor_state = "off"
    /\ humidity_turn_off_timer_handle = NoHandle
    /\ ~auto_activated
    /\ timer_turn_off
    /\ sched = {}

(***************************************************************************)
(* C11 (as claimed): initialize fails, and no subscription is taken, when  *)
(* lower_threshold >= threshold, when delay or manual_delay is negative,   *)
(* or when the entity id of a sensor or of the actor is not given.         *)
(***************************************************************************)
C11_RefusesInconsistentConfiguration ==
    (/\ last.act = "initialize"
     /\ \/ args.lower_threshold >= args.threshold
        \/ args.delay < 0
        \/ args.manual_delay < 0
        \/ ~((SensorEntities \cup {"actor"}) \subseteq args.given))
    => (last.raised /\ listeners = {})

(***************************************************************************)
(* C12: once terminate has run, whatever state it ran in, the scheduler    *)
(* holds no timer of the controller (so none fires afterwards) and no      *)
(* listen_state subscription is left.                                      *)
(***************************************************************************)
C12_TerminateReleasesAll ==
    last.act = "terminate" => (sched = {} /\ listeners = {})

\* terminate ran while an AutoShutoff timer was pending and a notification
\* was waiting to be delivered
C12_Witness ==
    /\ last.act = "terminate"
    /\ humidity_turn_off_timer_handle # NoHandle
    /\ queue # <<>>
    /\ sched = {}

(***************************************************************************)
(* C13 (as claimed): timer_turn_off holds only between a timer callback    *)
(* commanding the actor off and the handling of the on -> off notification *)
(* that the command produced: whenever the marker is set, that             *)
(* notification is waiting to be delivered.                                *)
(***************************************************************************)
C13_MarkerOnlyWhileOwnOffPending ==
    timer_turn_off => \E i \in 1..Len(queue) : queue[i] = ActorOff("app")

(***************************************************************************)
(* C14: a state_change for a sensor that finds the gate not off, the four  *)
(* readings valid and the difference above threshold leaves auto_activated *)
(* set; it commands the actor on if the store showed it off, and commands  *)
(* nothing if it showed it on; and it leaves no AutoShutoff and no         *)
(* ManualShutoff timer pending.                                            *)
(***************************************************************************)
C14_EmergencyOverridesShutoffs ==
    [][(/\ Handling
        /\ Head(queue).entity \in SensorEntities
        /\ ~GateOff
        /\ Above(sensors))
       => (/\ auto_activated'
           /\ actor_state = "off" => (last'.cmd = "on" /\ actor_state' = "on")
           /\ actor_state = "on" => last'.cmd = "none"
           /\ sched' = {}
           /\ humidity_turn_off_timer_handle' = NoHandle
           /\ manual_turn_off_timer_handle' = NoHandle
           /\ timer_handle_list' = <<>>)]_vars

\* a sensor event found the difference above threshold while the store
\* showed the actor on: nothing was commanded and no timer is left
C14_Witness ==
    /\ last.act = "state_change"
    /\ last.entity \in SensorEntities
    /\ last.hot
    /\ last.cmd = "none"
    /\ Above(sensors)
    /\ actor_state = "on"
    /\ auto_activated
    /\ sched = {}
    /\ timer_handle_list = <<>>

(***************************************************************************)
(* C15 (as claimed): also when the off command of a timer callback raises, *)
(* the handles stay consistent with the scheduler: a handle attribute that *)
(* is set names a timer that is pending, so the handle of a timer that has *)
(* fired is cleared and a timer of its kind can be scheduled again.        *)
(***************************************************************************)
C15_HandlesSurviveCommandFailure ==
    /\ humidity_turn_off_timer_handle # NoHandle
           => \E t \in Pending("turn_off_callback") :
                  t.handle = humidity_turn_off_timer_handle
    /\ manual_turn_off_timer_handle # NoHandle
           => \E t \in Pending("manual_turn_off_callback") :
                  t.handle = manual_turn_off_timer_handle

(***************************************************************************)
(* C16 (as claimed): a state_change for an actor off -> on that finds      *)
(* auto_activated false and the gate not off leaves a ManualShutoff timer  *)
(* pending, with manual_delay to run if it scheduled it, and commands      *)
(* nothing.                                                                *)
(***************************************************************************)
C16_ManualActivationTimed ==
    [][(/\ Handling
        /\ Head(queue).entity = ActorEntity
        /\ Head(queue).old = "off"
        /\ Head(queue).new = "on"
        /\ ~auto_activated
        /\ ~GateOff)
       => (/\ last'.cmd = "none"
           /\ manual_turn_off_timer_handle' # NoHandle
           /\ \E t \in sched' :
                  /\ t.handle = manual_turn_off_timer_handle'
                  /\ t.callback = "manual_turn_off_callback"
                  /\ (t \notin sched => t.rem = manual_delay))]_vars

(***************************************************************************)
(* C17 (as claimed): a state_change for an actor on -> off that a user     *)
(* caused, with the gate not off and the difference valid and not above    *)
(* threshold, leaves auto_activated false and no ManualShutoff timer       *)
(* pending, whatever held before.                                          *)
(***************************************************************************)
C17_PlainManualShutoff ==
    [][(/\ Handling
        /\ Head(queue) = ActorOff("user")
        /\ ~GateOff
        /\ Valid(sensors)
        /\ ~Above(sensors))
       => (/\ ~auto_activated'
           /\ manual_turn_off_timer_handle' = NoHandle
           /\ \A t \in sched' : t.callback # "manual_turn_off_callback")]_vars

C19_GateOnAdoptsRunningActor ==
    [][(Handling /\ Head(queue) = SwitchOn)
       => (/\ "manual_turn_off_callback" \in last'.armed
                 <=> (/\ actor_state = "on"
                      /\ ~auto_activated
                      /\ manual_turn_off_timer_handle = NoHandle)
           /\ ("manual_turn_off_callback" \in last'.armed /\ ~last'.hot)
                 => \E t \in sched' :
                        /\ t.callback = "manual_turn_off_callback"
                        /\ t.handle = manual_turn_off_timer_handle'
                        /\ t.rem = manual_delay
           /\ last'.hot => sched' = {})]_vars

\* the gate went on while the actor was on and not auto-activated, the
\* difference not above threshold: a ManualShutoff timer is pending
C19_Witness ==
    /\ last.act = "state_change"
    /\ last.entity = app_switch
    /\ last.new = "on"
    /\ last.armed = {"manual_turn_off_callback"}
    /\ ~last.hot
    /\ actor_state = "on"
    /\ ~auto_activated
    /\ Pending("manual_turn_off_callback") # {}


\* C20: StairwayFan issues no command to the actor in a step taken while
\* its app switch is not on.
C20_InertWhileSwitchedOff ==
    [][switch_state # "on" => last'.cmd = "none"]_vars

\* C21: StairwayFan turns off only what it turned on: it neither schedules
\* a turn-off timer for, nor commands off, an actor whose current on-period
\* was started by hand, and at most one turn-off timer is pending.
C21_OnlyTurnsOffOwnOnPeriod ==
    [][/\ (manual_on /\ actor_state = "on") => (last'.cmd # "off" /\ last'.armed = {})
       /\ Cardinality(sched') <= 1]_vars

\* C22: a pending manual power off excludes auto-activation: after every step
\* a manual_turn_off_callback timer, or its handle, is held only while
\* auto_activated is false; a step schedules one only when auto_activated
\* was false; and a step that sets auto_activated leaves none.
C22_ManualTimerExcludesAuto ==
    [][/\ (\/ Pending("manual_turn_off_callback")' # {}
           \/ manual_turn_off_timer_handle' # NoHandle) => ~auto_activated'
       /\ "manual_turn_off_callback" \in last'.armed => ~auto_activated
       /\ last'.hot => /\ auto_activated'
                       /\ Pending("manual_turn_off_callback")' = {}
                       /\ manual_turn_off_timer_handle' = NoHandle]_vars

\* the app switch went on with the actor running and the difference above
\* the threshold: the step scheduled the manual power off, then auto-activated
\* and cancelled it
C22_Witness ==
    /\ last.act = "state_change"
    /\ last.hot
    /\ "manual_turn_off_callback" \in last.armed
    /\ auto_activated
    /\ Pending("manual_turn_off_callback") = {}

\* C23: the controller commands the actor off only from a timer callback,
\* never from state_change; it commands the actor on only from a state_change
\* that finds the gate not off, the four readings valid, the difference above
\* threshold and the actor off.
C23_CommandOrigins ==
    [][/\ last'.cmd = "off" =>
             last'.act \in {"turn_off_callback", "manual_turn_off_callback"}
       /\ last'.cmd = "on" =>
             /\ last'.act = "state_change"
             /\ ~GateOff
             /\ Valid(sensors)
             /\ Above(sensors)
             /\ actor_state = "off"]_vars

\* a timer callback commanded the actor off and, with that notification still
\* to be delivered, state_change commanded it on again
C23_Witness ==
    /\ last.act = "state_change"
    /\ last.cmd = "on"
    /\ actor_state = "on"
    /\ \E i \in 1..Len(queue) : queue[i] = ActorOff("app")

\* the handles timer_handle_list holds
Listed == {timer_handle_list[i] : i \in 1..Len(timer_handle_list)}

====
